---- MODULE Spec2Model ----
(***************************************************************************)
(* SL Trafiklage Monitor (line 29): the poll cycle of its three variants,  *)
(*   sl_monitor_gtfs.py          SLMonitorGTFS         (alert ids)         *)
(*   sl_monitor_simple.py        SLMonitorSimple       (record count)      *)
(*   sl_monitor_ultra_simple.py  SLMonitorUltraSimple  (one boolean)       *)
(* One action is one whole call of run(): fetch, load the state file,      *)
(* classify, notify, save the state file.  A deployment runs one variant   *)
(* against its own STATE_FILE; the variant is chosen in Init.              *)
(*                                                                         *)
(* The environment of a cycle is an input of the action: whether LOG_FILE  *)
(* can be appended to, what the network answered, how each notification    *)
(* channel behaved, the mail settings, and how the write of STATE_FILE     *)
(* went.  Whether LOG_FILE is writable is taken as fixed for one cycle.    *)
(*                                                                         *)
(* Spec runs the cycles one after the other, each as one step.  SpecSteps  *)
(* runs one process whose cycle is taken statement by statement and can be *)
(* killed in between; SpecOverlap runs two such processes against the same *)
(* STATE_FILE, as two invocations of the script that overlap in time.      *)
(* SpecCompose applies the part of the message composer that renders the   *)
(* details and the active periods of one disruption.                       *)
(***************************************************************************)
EXTENDS Integers, Sequences, FiniteSets, TLC

VARIABLES variant, state_file, last, cycles, rendered

vars == <<variant, state_file, last, cycles, rendered>>

\* Longest list of disruptions a snapshot holds in the model.
MaxRecords == 2

Variants == {"gtfs", "simple", "ultra"}

\* ------------------------------------------------------------------ values

Range(s) == {s[i] : i \in DOMAIN s}

BoundedSeq(S, n) == UNION {[1..k -> S] : k \in 0..n}

\* A Python dict is a record; {} is the record with no field.
EmptyDict == <<>>

\* dict.get(key, default)
Get(d, key, default) == IF key \in DOMAIN d THEN d[key] ELSE default

\* Python's None, as the result of a fetch.
None == [py |-> "None"]

\* STATE_FILE on disk: absent, unparseable (what a truncated or partial
\* json.dump leaves behind), or the JSON object last written.
Missing == [kind |-> "missing"]
Corrupt == [kind |-> "corrupt"]
Json(value) == [kind |-> "json", value |-> value]

\* A route id is the sequence of its characters.
LINE_TO_MONITOR == <<"2", "9">>

\* The alert entities of a GTFS feed: entity.id, the header text and the
\* route_id of the informed entity ("29", "SL:29" and "7").  A feed is any
\* list of them, so it may repeat an id.
GtfsEntities ==
    { [id |-> "A", header |-> "hA", route_id |-> LINE_TO_MONITOR],
      [id |-> "B", header |-> "hB", route_id |-> <<"S", "L", ":", "2", "9">>],
      [id |-> "X", header |-> "hX", route_id |-> <<"7">>] }

GtfsFeeds == BoundedSeq(GtfsEntities, MaxRecords)

\* LINE_TO_MONITOR in route_id or route_id == LINE_TO_MONITOR: the route id
\* holds "29" somewhere, so "129" and "290" pass as well.
MentionsLine29(route_id) ==
    \/ \E i \in 1..(Len(route_id) - Len(LINE_TO_MONITOR) + 1) :
          SubSeq(route_id, i, i + Len(LINE_TO_MONITOR) - 1) = LINE_TO_MONITOR
    \/ route_id = LINE_TO_MONITOR

\* How open(STATE_FILE, "w") + json.dump went: written; open() raised (the
\* file is untouched); open() truncated the file and the dump or the close
\* raised.
WriteOutcomes == {"ok", "open_failed", "partial"}

\* Readings of the clock: what datetime.now() returns in a cycle, when
\* save_state builds the state it writes and when the ultra variant dates
\* the body of its mail.
Clock == {"t1", "t2"}

\* How the body of send_desktop_notification's try block went.
DesktopOutcomes == {"ok", "failed"}

\* The mail environment of a cycle: SMTP_PORT parses as an integer or not,
\* EMAIL_FROM/EMAIL_TO/EMAIL_PASSWORD are all set or not, and the SMTP
\* session succeeds or raises.  One representative per outcome of
\* send_email_notification.
EmailEnvs ==
    { [smtp_port_ok |-> FALSE, configured |-> TRUE,  smtp_ok |-> TRUE],
      [smtp_port_ok |-> TRUE,  configured |-> FALSE, smtp_ok |-> TRUE],
      [smtp_port_ok |-> TRUE,  configured |-> TRUE,  smtp_ok |-> TRUE],
      [smtp_port_ok |-> TRUE,  configured |-> TRUE,  smtp_ok |-> FALSE] }

\* ---------------------------------------------------- what a cycle did

\* The record of the most recent call of run().
\*   outcome        "returned" | "raised" (an exception left run)
\*   fetch          the request the fetch ended on and what it answered
\*   fetched        the fetch returned data (not None)
\*   previous       what STATE_FILE held when the cycle began: its kind and
\*                  the known ids (GTFS), count (simple) or flag (ultra) in it
\*   current        the disruptions of this cycle (filter_line_29's list, or
\*                  has_disruption_now in the ultra variant)
\*   classification the branch run() took
\*   notifications  the notifications composed, in order
\*   desktop, email what happened on each channel
\*   save           what happened in save_state
NoCycle ==
    [ outcome |-> "none_yet", fetch |-> [request |-> "-", answer |-> "-"],
      fetched |-> FALSE,
      previous |-> [kind |-> "missing", known |-> {}],
      current |-> <<>>, classification |-> "-",
      notifications |-> <<>>, desktop |-> "not_called",
      email |-> "not_called", save |-> "not_called" ]

\* ------------------------------------------------------------ shared I/O

\* Faulty load_previous_state: a file that cannot be read yields a made-up
\* state instead of {}.
load_previous_state_made_up(file) ==
    IF file.kind = "json" THEN file.value
    ELSE [alert_ids |-> <<"A", "B">>, count |-> 1]

\* load_previous_state of the GTFS and the simple variant.
load_previous_state(file) ==
    IF file.kind = "json" THEN file.value ELSE EmptyDict

\* The with-open-json.dump of save_state: what STATE_FILE holds afterwards.
write_state_file(file, state, write) ==
    CASE write = "ok"          -> Json(state)
      [] write = "open_failed" -> file
      [] write = "partial"     -> Corrupt

\* What save_state did: "written", or the way its write failed (logged).
save_result(write) == IF write = "ok" THEN "written" ELSE write

\* send_email_notification: int(SMTP_PORT) is evaluated before the check of
\* the credentials and outside the try block.
send_email_notification(mail) ==
    IF ~mail.smtp_port_ok THEN "raised"
    ELSE IF ~mail.configured THEN "unconfigured"
    ELSE IF mail.smtp_ok THEN "sent"
    ELSE "smtp_error"

\* ================================================================= GTFS

GtfsFetches == {"ok", "no_key", "timeout", "request_error", "parse_error"}

\* fetch_disruptions: the parsed feed, or None.
gtfs_fetch_disruptions(fetch, alerts) ==
    IF fetch = "ok" THEN [py |-> "feed", alerts |-> alerts] ELSE None

\* filter_line_29: one disruption per alert that informs a route of line
\* 29, in the order of the feed.
gtfs_filter_line_29(feed) ==
    LET affects_line_29(entity) == MentionsLine29(entity.route_id)
        kept == SelectSeq(feed.alerts, affects_line_29)
    IN  [i \in DOMAIN kept |->
            [alert_id |-> kept[i].id, header |-> kept[i].header]]

\* set(previous_state.get("alert_ids", []))
gtfs_previous_ids(previous_state) ==
    Range(Get(previous_state, "alert_ids", <<>>))

\* set(d.get("alert_id") for d in current_disruptions)
gtfs_current_ids(current_disruptions) ==
    {d.alert_id : d \in Range(current_disruptions)}

gtfs_new_ids(current_ids, previous_ids) == current_ids \ previous_ids

\* Faulty gtfs_resolved_ids: the operands are those of new_ids.
gtfs_resolved_ids_swapped(current_ids, previous_ids) ==
    current_ids \ previous_ids

gtfs_resolved_ids(current_ids, previous_ids) == previous_ids \ current_ids

\* Faulty gtfs_classify: ids that disappeared are looked at before new ids.
gtfs_classify_updated_first(current_disruptions, previous_ids) ==
    LET current_ids  == gtfs_current_ids(current_disruptions)
        new_ids      == gtfs_new_ids(current_ids, previous_ids)
        resolved_ids == gtfs_resolved_ids(current_ids, previous_ids)
    IN  IF current_disruptions # <<>>
        THEN IF resolved_ids # {} /\ current_ids # {} THEN "updated"
             ELSE IF new_ids # {} THEN "new"
             ELSE "ongoing"
        ELSE IF previous_ids # {} THEN "resolved"
             ELSE "none"

\* Faulty gtfs_classify: an empty current list is never told apart by
\* previous_ids, so the resolved branch is lost.
gtfs_classify_no_resolved(current_disruptions, previous_ids) ==
    LET current_ids == gtfs_current_ids(current_disruptions)
    IN  IF current_disruptions # <<>>
        THEN IF gtfs_new_ids(current_ids, previous_ids) # {} THEN "new"
             ELSE IF gtfs_resolved_ids(current_ids, previous_ids) # {}
                     /\ current_ids # {} THEN "updated"
             ELSE "ongoing"
        ELSE "none"

\* The branch of run() taken.
gtfs_classify(current_disruptions, previous_ids) ==
    LET current_ids  == gtfs_current_ids(current_disruptions)
        new_ids      == gtfs_new_ids(current_ids, previous_ids)
        resolved_ids == gtfs_resolved_ids(current_ids, previous_ids)
    IN  IF current_disruptions # <<>>
        THEN IF new_ids # {} THEN "new"
             ELSE IF resolved_ids # {} /\ current_ids # {} THEN "updated"
             ELSE "ongoing"
        ELSE IF previous_ids # {} THEN "resolved"
             ELSE "none"

\* Faulty gtfs_new_disruptions: the filter on new_ids is forgotten.
gtfs_new_disruptions_unfiltered(current_disruptions, new_ids) ==
    current_disruptions

\* [d for d in current_disruptions if d["alert_id"] in new_ids]
gtfs_new_disruptions(current_disruptions, new_ids) ==
    SelectSeq(current_disruptions, LAMBDA d : d.alert_id \in new_ids)

\* Faulty gtfs_relevant: the new branch hands over the current disruptions
\* that were known already.
gtfs_relevant_known(classification, current_disruptions, previous_ids) ==
    CASE classification = "new" ->
           SelectSeq(current_disruptions, LAMBDA d : d.alert_id \in previous_ids)
      [] classification = "updated" -> current_disruptions
      [] OTHER -> <<>>

\* The list run() hands to send_notification.
gtfs_relevant(classification, current_disruptions, previous_ids) ==
    CASE classification = "new" ->
           gtfs_new_disruptions(current_disruptions,
              gtfs_new_ids(gtfs_current_ids(current_disruptions), previous_ids))
      [] classification = "updated" -> current_disruptions
      [] OTHER -> <<>>

gtfs_title(notification_type) ==
    CASE notification_type = "new"     -> "NY storning pa linje 29 (Nasbyparkslinjen)"
      [] notification_type = "updated" -> "Uppdaterad storning pa linje 29"
      [] notification_type = "ongoing" -> "Pagaende storning pa linje 29"
      [] OTHER                         -> "Storning lost pa linje 29"

\* Faulty gtfs_format_disruption_message: the entries are numbered from the
\* end of the list.
gtfs_format_disruption_message_reversed(disruptions) ==
    [i \in DOMAIN disruptions |->
        [idx |-> i, header |-> disruptions[Len(disruptions) + 1 - i].header]]

\* format_disruption_message: one numbered entry per disruption, in order.
gtfs_format_disruption_message(disruptions) ==
    [i \in DOMAIN disruptions |-> [idx |-> i, header |-> disruptions[i].header]]

\* The notification send_notification composes.
gtfs_compose(disruptions, notification_type) ==
    [ type        |-> notification_type,
      disruptions |-> disruptions,
      title       |-> gtfs_title(notification_type),
      body        |-> IF disruptions # <<>>
                      THEN [kind |-> "listing",
                            entries |-> gtfs_format_disruption_message(disruptions)]
                      ELSE [kind |-> "all_resolved", entries |-> <<>>] ]

\* Faulty gtfs_email_types: resolved is mailed as well.
gtfs_email_types_with_resolved == {"new", "updated", "resolved"}

\* The notification types send_notification also mails.
gtfs_email_types == {"new", "updated"}

\* send_notification: the desktop call, then the mail call for some types.
\* An exception inside either channel's try block is caught and logged.
gtfs_send_notification(disruptions, notification_type, desktop, mail) ==
    [ notification |-> gtfs_compose(disruptions, notification_type),
      desktop      |-> desktop,
      email        |-> IF notification_type \in gtfs_email_types
                       THEN send_email_notification(mail)
                       ELSE "not_called" ]

\* Faulty gtfs_state: the time of the write is also put among the ids.
gtfs_state_stamped_ids(disruptions, now) ==
    [ timestamp   |-> now,
      disruptions |-> disruptions,
      alert_ids   |-> [i \in DOMAIN disruptions |-> disruptions[i].alert_id]
                      \o <<now>> ]

\* Faulty gtfs_state: alert_ids is left empty.
gtfs_state_without_ids(disruptions, now) ==
    [ timestamp |-> now, disruptions |-> disruptions, alert_ids |-> <<>> ]

\* save_state: the JSON object written.
gtfs_state(disruptions, now) ==
    [ timestamp   |-> now,
      disruptions |-> disruptions,
      alert_ids   |-> [i \in DOMAIN disruptions |-> disruptions[i].alert_id] ]

\* The ids STATE_FILE holds, read off the file itself.
GtfsPersisted(file) ==
    [ kind  |-> file.kind,
      known |-> IF file.kind = "json" THEN Range(file.value.alert_ids) ELSE {} ]

\* Faulty gtfs_notified_types: the ongoing branch notifies too.
gtfs_notified_types_with_ongoing == {"new", "updated", "resolved", "ongoing"}

\* The branches of run() that call send_notification.
gtfs_notified_types == {"new", "updated", "resolved"}

\* run(): the record of the cycle and STATE_FILE afterwards.
SLMonitorGTFS_run(file, env) ==
    LET begun == [NoCycle EXCEPT !.previous = GtfsPersisted(file),
                                 !.fetch = [request |-> "feed",
                                            answer  |-> env.fetch]]
        feed  == gtfs_fetch_disruptions(env.fetch, env.alerts)
    IN
    IF ~env.log_ok
    THEN [cycle |-> [begun EXCEPT !.outcome = "raised", !.fetch = NoCycle.fetch],
          file  |-> file]
    ELSE IF feed = None
    THEN [cycle |-> [begun EXCEPT !.outcome = "returned"], file |-> file]
    ELSE
    LET current_disruptions == gtfs_filter_line_29(feed)
        previous_state == load_previous_state(file)
        previous_ids   == gtfs_previous_ids(previous_state)
        classification == gtfs_classify(current_disruptions, previous_ids)
        notifies       == classification \in gtfs_notified_types
        sent           == gtfs_send_notification(
                              gtfs_relevant(classification, current_disruptions,
                                            previous_ids),
                              classification, env.desktop, env.mail)
        classified     == [begun EXCEPT
                             !.fetched = TRUE,
                             !.current = current_disruptions,
                             !.classification = classification,
                             !.notifications =
                                 IF notifies THEN <<sent.notification>> ELSE <<>>,
                             !.desktop =
                                 IF notifies THEN sent.desktop ELSE "not_called",
                             !.email =
                                 IF notifies THEN sent.email ELSE "not_called"]
    IN
    IF classified.email = "raised"
    THEN [cycle |-> [classified EXCEPT !.outcome = "raised"], file |-> file]
    ELSE [cycle |-> [classified EXCEPT !.outcome = "returned",
                                       !.save = save_result(env.write)],
          file  |-> write_state_file(file,
                                     gtfs_state(current_disruptions, env.now),
                                     env.write)]

\* The environments of a GTFS cycle over a state file.  An input the cycle
\* never reads (the feed of a failed fetch, a channel that is not called,
\* the write after a mail call that raised) or whose value leaves no trace
\* (the clock of a state that is not written) is held at one value.
MailWorks == [smtp_port_ok |-> TRUE, configured |-> TRUE, smtp_ok |-> TRUE]

\* The channel, write and clock inputs that leave a trace in a cycle whose
\* notification goes to these channels: the write and the clock only when
\* the mail call does not raise, the clock only when the write succeeds.
CycleInputs(desktops, mails) ==
    [ desktop : desktops, mail : {m \in mails : ~m.smtp_port_ok},
      write : {"ok"}, now : {"t1"} ]
    \cup
    [ desktop : desktops, mail : {m \in mails : m.smtp_port_ok},
      write : WriteOutcomes \ {"ok"}, now : {"t1"} ]
    \cup
    [ desktop : desktops, mail : {m \in mails : m.smtp_port_ok},
      write : {"ok"}, now : Clock ]

\* The environments of a GTFS cycle that fetches this feed over this file.
GtfsFetchedEnvs(file, alerts) ==
    LET classification ==
            gtfs_classify(
                gtfs_filter_line_29(gtfs_fetch_disruptions("ok", alerts)),
                gtfs_previous_ids(load_previous_state(file)))
        notifies == classification \in gtfs_notified_types
        mails    == notifies /\ classification \in gtfs_email_types
    IN  { [ log_ok |-> TRUE, fetch |-> "ok", alerts |-> alerts,
            desktop |-> i.desktop, mail |-> i.mail,
            write |-> i.write, now |-> i.now ] :
          i \in CycleInputs(IF notifies THEN DesktopOutcomes ELSE {"ok"},
                            IF mails THEN EmailEnvs ELSE {MailWorks}) }

GtfsEnvs(file) ==
    [ log_ok : {FALSE}, fetch : {"ok"}, alerts : {<<>>},
      desktop : {"ok"}, mail : {MailWorks}, write : {"ok"}, now : {"t1"} ]
    \cup
    [ log_ok : {TRUE}, fetch : GtfsFetches \ {"ok"}, alerts : {<<>>},
      desktop : {"ok"}, mail : {MailWorks}, write : {"ok"}, now : {"t1"} ]
    \cup
    UNION { GtfsFetchedEnvs(file, alerts) : alerts \in GtfsFeeds }

\* =============================================================== simple

\* The disruptions filter_line_29 of the simple variant builds from the
\* events of the API payload that mention line 29.
SimpleDisruptions == { [header |-> "h1"], [header |-> "h2"] }

SimpleSnapshots == BoundedSeq(SimpleDisruptions, MaxRecords)

\* The one disruption filter_line_29 builds from a scraped page: it
\* carries the reading of the clock at which it was built.
ScrapedDisruption(now) ==
    [ header    |-> "Mojlig storning upptackt",
      details   |-> "Linje 29 namns pa SL:s storningssida. Kontrollera sl.se for detaljer.",
      timestamp |-> now ]

\* The answers of the three requests of fetch_disruptions; "unused" when
\* the request is not made.
\*   keyed, keyless: the request raised; the status was not 200; the body
\*     was no JSON; the JSON carried StatusCode 0; the JSON carried another
\*     StatusCode (an error payload, without ResponseData)
\*   scrape: the request raised; the status was not 200; the page mentions
\*     the line and a disruption; it does not
ApiAnswers == {"exception", "non200", "bad_json", "ok", "api_error"}
ScrapeAnswers == {"exception", "non200", "disruption", "clear"}

\* The JSON object of an API answer.
simple_payload(answer, events) ==
    IF answer = "ok"
    THEN [py |-> "dict", StatusCode |-> 0, ResponseData |-> events]
    ELSE [py |-> "dict", StatusCode |-> 1]

\* scrape_sl_website
scrape_sl_website(scrape) ==
    CASE scrape = "disruption" ->
           [py |-> "dict", has_disruption |-> TRUE, source |-> "website_scraping"]
      [] scrape = "clear" ->
           [py |-> "dict", has_disruption |-> FALSE, source |-> "website_scraping"]
      [] OTHER -> None

\* fetch_disruptions: the keyless request and what follows it.
simple_fetch_keyless(net) ==
    CASE net.keyless \in {"exception", "bad_json"} -> None
      [] net.keyless \in {"ok", "api_error"} -> simple_payload(net.keyless, net.events)
      [] OTHER -> scrape_sl_website(net.scrape)

\* fetch_disruptions: the data, or None.
simple_fetch_disruptions(net) ==
    IF net.has_key
    THEN CASE net.keyed \in {"exception", "bad_json"} -> None
           [] net.keyed = "ok" -> simple_payload(net.keyed, net.events)
           [] OTHER -> simple_fetch_keyless(net)
    ELSE simple_fetch_keyless(net)

\* The response fetch_disruptions ended on.
simple_fetch_end(net) ==
    IF net.has_key /\ net.keyed \in {"exception", "bad_json", "ok"}
    THEN [request |-> "keyed", answer |-> net.keyed]
    ELSE IF net.keyless # "non200"
    THEN [request |-> "keyless", answer |-> net.keyless]
    ELSE [request |-> "scrape", answer |-> net.scrape]

\* filter_line_29, called when the clock reads now.
simple_filter_line_29(data, now) ==
    IF Get(data, "source", "") = "website_scraping"
    THEN IF data.has_disruption THEN <<ScrapedDisruption(now)>> ELSE <<>>
    ELSE IF "ResponseData" \in DOMAIN data THEN data.ResponseData ELSE <<>>

\* Faulty simple_classify: disruptions after disruptions always count as
\* updated.
simple_classify_never_ongoing(current_count, previous_count) ==
    IF current_count > 0
    THEN IF previous_count = 0 THEN "new" ELSE "updated"
    ELSE IF previous_count > 0 THEN "resolved"
         ELSE "none"

\* The branch of run() taken.
simple_classify(current_count, previous_count) ==
    IF current_count > 0
    THEN IF previous_count = 0 THEN "new"
         ELSE IF current_count # previous_count THEN "updated"
         ELSE "ongoing"
    ELSE IF previous_count > 0 THEN "resolved"
         ELSE "none"

simple_title(notification_type) ==
    CASE notification_type = "new"      -> "NY storning pa linje 29 (Nasbyparkslinjen)"
      [] notification_type = "resolved" -> "Storning lost pa linje 29"
      [] OTHER                          -> "Storning pa linje 29"

\* The notification send_notification composes.
simple_compose(disruptions, notification_type) ==
    [ type        |-> notification_type,
      disruptions |-> disruptions,
      title       |-> simple_title(notification_type),
      body        |-> IF disruptions # <<>>
                      THEN [kind |-> "listing",
                            entries |-> [i \in DOMAIN disruptions |->
                                [idx |-> i, header |-> disruptions[i].header]]]
                      ELSE [kind |-> "all_resolved", entries |-> <<>>] ]

\* The notification types send_notification mails.
simple_email_types == {"new", "resolved"}

\* send_notification: the message is logged, and mailed for some types.
simple_send_notification(disruptions, notification_type, mail) ==
    [ notification |-> simple_compose(disruptions, notification_type),
      desktop      |-> "not_called",
      email        |-> IF notification_type \in simple_email_types
                       THEN send_email_notification(mail)
                       ELSE "not_called" ]

\* save_state: the JSON object written.
simple_state(disruptions, now) ==
    [ timestamp   |-> now,
      disruptions |-> disruptions,
      count       |-> Len(disruptions) ]

\* The count STATE_FILE holds, read off the file itself.
SimplePersisted(file) ==
    [ kind  |-> file.kind,
      known |-> IF file.kind = "json" THEN file.value.count ELSE 0 ]

\* The branches of run() that call send_notification.
simple_notified_types == {"new", "updated", "resolved"}

\* run(): the record of the cycle and STATE_FILE afterwards.
SLMonitorSimple_run(file, env) ==
    LET begun == [NoCycle EXCEPT !.previous = SimplePersisted(file),
                                 !.fetch = simple_fetch_end(env.net)]
        data  == simple_fetch_disruptions(env.net)
    IN
    IF ~env.log_ok
    THEN [cycle |-> [begun EXCEPT !.outcome = "raised", !.fetch = NoCycle.fetch],
          file  |-> file]
    ELSE IF data = None
    THEN [cycle |-> [begun EXCEPT !.outcome = "returned"], file |-> file]
    ELSE
    LET current_disruptions == simple_filter_line_29(data, env.now)
        previous_state == load_previous_state(file)
        previous_count == Get(previous_state, "count", 0)
        current_count  == Len(current_disruptions)
        classification == simple_classify(current_count, previous_count)
        notifies       == classification \in simple_notified_types
        sent           == simple_send_notification(
                              IF classification = "resolved" THEN <<>>
                              ELSE current_disruptions,
                              classification, env.mail)
        classified     == [begun EXCEPT
                             !.fetched = TRUE,
                             !.current = current_disruptions,
                             !.classification = classification,
                             !.notifications =
                                 IF notifies THEN <<sent.notification>> ELSE <<>>,
                             !.email =
                                 IF notifies THEN sent.email ELSE "not_called"]
    IN
    IF classified.email = "raised"
    THEN [cycle |-> [classified EXCEPT !.outcome = "raised"], file |-> file]
    ELSE [cycle |-> [classified EXCEPT !.outcome = "returned",
                                       !.save = save_result(env.write)],
          file  |-> write_state_file(file,
                                     simple_state(current_disruptions, env.now),
                                     env.write)]

\* The network of a simple cycle: which requests are made follows from the
\* answers, and a request never made is "unused"; the events are those of
\* the API payload the fetch returns, if it returns one.
SimpleNets ==
    { net \in [ has_key : BOOLEAN,
                keyed   : ApiAnswers \cup {"unused"},
                keyless : ApiAnswers \cup {"unused"},
                scrape  : ScrapeAnswers \cup {"unused"},
                events  : SimpleSnapshots ] :
        /\ (net.keyed = "unused") <=> ~net.has_key
        /\ (net.keyless = "unused") <=>
               (net.has_key /\ net.keyed \in {"exception", "bad_json", "ok"})
        /\ (net.scrape = "unused") <=> (net.keyless # "non200")
        /\ (net.events # <<>>) => simple_fetch_end(net).answer = "ok" }

\* The networks over which fetch_disruptions returns None / returns data.
SimpleFailingNets == {net \in SimpleNets : simple_fetch_disruptions(net) = None}

SimpleFetchingNets == SimpleNets \ SimpleFailingNets

\* The environments of a simple cycle whose fetch over this network
\* returns data, over this file.  The clock leaves its trace in the record
\* built from a scraped page whatever happens to the mail and the write.
SimpleFetchedEnvs(file, net) ==
    LET data == simple_fetch_disruptions(net)
        classification ==
            simple_classify(
                Len(simple_filter_line_29(data, "t1")),
                Get(load_previous_state(file), "count", 0))
        mails == /\ classification \in simple_notified_types
                 /\ classification \in simple_email_types
        clock == IF \A t \in Clock : simple_filter_line_29(data, t)
                                       = simple_filter_line_29(data, "t1")
                 THEN {} ELSE Clock
        inputs == CycleInputs({"not_called"},
                              IF mails THEN EmailEnvs ELSE {MailWorks})
    IN  { [ log_ok |-> TRUE, net |-> net, mail |-> i.mail,
            write |-> i.write, now |-> i.now ] : i \in inputs }
        \cup
        { [ log_ok |-> TRUE, net |-> net, mail |-> i.mail,
            write |-> i.write, now |-> now ] : i \in inputs, now \in clock }

\* The environments of a simple cycle over a state file, inputs that are
\* not read or leave no trace held at one value.
SimpleEnvs(file) ==
    [ log_ok : {FALSE},
      net : {[has_key |-> FALSE, keyed |-> "unused", keyless |-> "exception",
              scrape |-> "unused", events |-> <<>>]},
      mail : {MailWorks}, write : {"ok"}, now : {"t1"} ]
    \cup
    [ log_ok : {TRUE}, net : SimpleFailingNets,
      mail : {MailWorks}, write : {"ok"}, now : {"t1"} ]
    \cup
    UNION { SimpleFetchedEnvs(file, net) : net \in SimpleFetchingNets }

\* ================================================================ ultra

\* What check_for_disruptions met: a page that mentions the line among the
\* disruption words, a page that does not, a status other than 200, a
\* timeout, another request error, any other exception.
UltraFetches ==
    {"disruption", "clear", "bad_status", "timeout", "request_error", "unexpected"}

\* check_for_disruptions: the result, or None.
check_for_disruptions(fetch) ==
    CASE fetch = "disruption" -> [py |-> "dict", has_disruption |-> TRUE]
      [] fetch = "clear"      -> [py |-> "dict", has_disruption |-> FALSE]
      [] OTHER                -> None

\* load_previous_state of the ultra variant.
ultra_load_previous_state(file) ==
    IF file.kind = "json" THEN file.value ELSE [had_disruption |-> FALSE]

\* Faulty ultra_classify: the second branch forgets had_disruption_before.
ultra_classify_forgetful(has_disruption_now, had_disruption_before) ==
    IF has_disruption_now /\ ~had_disruption_before THEN "new"
    ELSE IF ~has_disruption_now THEN "resolved"
    ELSE "ongoing"

\* The branch of run() taken.
ultra_classify(has_disruption_now, had_disruption_before) ==
    IF has_disruption_now /\ ~had_disruption_before THEN "new"
    ELSE IF ~has_disruption_now /\ had_disruption_before THEN "resolved"
    ELSE IF has_disruption_now THEN "ongoing"
    ELSE "none"

\* Faulty ultra_compose: the subject carries the date as well.
ultra_compose_dated_subject(classification, now) ==
    [ type        |-> classification,
      disruptions |-> <<>>,
      title       |-> now,
      body        |-> IF classification = "new"
                      THEN [kind |-> "detected", entries |-> <<>>, at |-> now]
                      ELSE [kind |-> "resolved", entries |-> <<>>, at |-> now] ]

\* The subject and body run() composes in its first two branches; the
\* body ends on a line that gives the time.
ultra_compose(classification, now) ==
    [ type        |-> classification,
      disruptions |-> <<>>,
      title       |-> IF classification = "new"
                      THEN "Storning pa linje 29 (Nasbyparkslinjen)"
                      ELSE "Storning lost - Linje 29",
      body        |-> IF classification = "new"
                      THEN [kind |-> "detected", entries |-> <<>>, at |-> now]
                      ELSE [kind |-> "resolved", entries |-> <<>>, at |-> now] ]

\* save_state: the JSON object written.
ultra_state(has_disruption, now) ==
    [timestamp |-> now, had_disruption |-> has_disruption]

\* The flag STATE_FILE holds, read off the file itself.
UltraPersisted(file) ==
    [ kind  |-> file.kind,
      known |-> IF file.kind = "json" THEN file.value.had_disruption ELSE FALSE ]

\* run(): the record of the cycle and STATE_FILE afterwards.  log() of this
\* variant only prints.
SLMonitorUltraSimple_run(file, env) ==
    LET begun  == [NoCycle EXCEPT !.previous = UltraPersisted(file),
                                  !.fetch = [request |-> "page",
                                             answer  |-> env.fetch]]
        result == check_for_disruptions(env.fetch)
    IN
    IF result = None
    THEN [cycle |-> [begun EXCEPT !.outcome = "returned"], file |-> file]
    ELSE
    LET previous_state        == ultra_load_previous_state(file)
        had_disruption_before == Get(previous_state, "had_disruption", FALSE)
        has_disruption_now    == Get(result, "has_disruption", FALSE)
        classification == ultra_classify(has_disruption_now, had_disruption_before)
        notifies       == classification \in {"new", "resolved"}
        classified     == [begun EXCEPT
                             !.fetched = TRUE,
                             !.current = has_disruption_now,
                             !.classification = classification,
                             !.notifications =
                                 IF notifies
                                 THEN <<ultra_compose(classification, env.now)>>
                                 ELSE <<>>,
                             !.email =
                                 IF notifies THEN send_email_notification(env.mail)
                                 ELSE "not_called"]
    IN
    IF classified.email = "raised"
    THEN [cycle |-> [classified EXCEPT !.outcome = "raised"], file |-> file]
    ELSE [cycle |-> [classified EXCEPT !.outcome = "returned",
                                       !.save = save_result(env.write)],
          file  |-> write_state_file(file,
                                     ultra_state(has_disruption_now, env.now),
                                     env.write)]

UltraEnvs ==
    [ fetch : UltraFetches \ {"disruption", "clear"},
      mail : {MailWorks}, write : {"ok"}, now : {"t1"} ]
    \cup
    [ fetch : {"disruption", "clear"}, mail : EmailEnvs,
      write : WriteOutcomes, now : Clock ]

\* ------------------------------------------------------------- actions

\* The invocations of the script that can be under way at once, and an
\* invocation that is not under way.  One that is holds its inputs (env),
\* the statement it has reached (pc) and the file contents it read (read).
\* No disruption rendered yet.
NotRendered == [done |-> FALSE]

Procs == {"p1", "p2"}

Idle == [pc |-> "idle", env |-> <<>>, read |-> Missing]

Init ==
    /\ variant \in Variants
    /\ state_file = Missing
    /\ last = NoCycle
    /\ cycles = [p \in Procs |-> Idle]
    /\ rendered = NotRendered

GtfsCycle ==
    /\ variant = "gtfs"
    /\ \E env \in GtfsEnvs(state_file) :
         \E r \in {SLMonitorGTFS_run(state_file, env)} :
             /\ last' = r.cycle
             /\ state_file' = r.file
    /\ UNCHANGED <<variant, cycles, rendered>>

SimpleCycle ==
    /\ variant = "simple"
    /\ \E env \in SimpleEnvs(state_file) :
         \E r \in {SLMonitorSimple_run(state_file, env)} :
             /\ last' = r.cycle
             /\ state_file' = r.file
    /\ UNCHANGED <<variant, cycles, rendered>>

UltraCycle ==
    /\ variant = "ultra"
    /\ \E env \in UltraEnvs :
         \E r \in {SLMonitorUltraSimple_run(state_file, env)} :
             /\ last' = r.cycle
             /\ state_file' = r.file
    /\ UNCHANGED <<variant, cycles, rendered>>

Next == GtfsCycle \/ SimpleCycle \/ UltraCycle

Spec == Init /\ [][Next]_vars

\* ------------------------------------------- run(), statement by statement

\* Longest list of disruptions a snapshot holds when run() is taken
\* statement by statement.
MaxStepRecords == 1

\* run() of the variant in use.
RunOf(file, env) ==
    CASE variant = "gtfs"   -> SLMonitorGTFS_run(file, env)
      [] variant = "simple" -> SLMonitorSimple_run(file, env)
      [] variant = "ultra"  -> SLMonitorUltraSimple_run(file, env)

\* The feeds and the networks of these cycles: line-29 alerts only, and a
\* keyless API answer.
StepFeeds ==
    BoundedSeq({e \in GtfsEntities : MentionsLine29(e.route_id)}, MaxStepRecords)

StepNets ==
    [ has_key : {FALSE}, keyed : {"unused"}, keyless : {"ok"},
      scrape : {"unused"}, events : BoundedSeq(SimpleDisruptions, MaxStepRecords) ]

\* The environments of a cycle in which nothing fails.
QuietEnvs ==
    CASE variant = "gtfs" ->
           [ log_ok : {TRUE}, fetch : {"ok"}, alerts : StepFeeds,
             desktop : {"ok"}, mail : {MailWorks}, write : {"ok"},
             now : {"t1"} ]
      [] variant = "simple" ->
           [ log_ok : {TRUE}, net : StepNets, mail : {MailWorks},
             write : {"ok"}, now : {"t1"} ]
      [] variant = "ultra" ->
           [ fetch : {"disruption", "clear"}, mail : {MailWorks},
             write : {"ok"}, now : {"t1"} ]

\* The environments of a cycle taken statement by statement: a quiet one,
\* one whose state write fails, one whose mail call raises, one whose fetch
\* fails.
BadPort == [smtp_port_ok |-> FALSE, configured |-> TRUE, smtp_ok |-> TRUE]

StepEnvs ==
    QuietEnvs
    \cup { [env EXCEPT !.write = w] :
             env \in QuietEnvs, w \in WriteOutcomes \ {"ok"} }
    \cup { [env EXCEPT !.mail = BadPort] : env \in QuietEnvs }
    \cup CASE variant = "gtfs" ->
                { [env EXCEPT !.fetch = "timeout"] :
                  env \in {e \in QuietEnvs : e.alerts = <<>>} }
            [] variant = "simple" ->
                { [env EXCEPT !.net.keyless = "exception"] :
                  env \in {e \in QuietEnvs : e.net.events = <<>>} }
            [] variant = "ultra" ->
                { [env EXCEPT !.fetch = "timeout"] :
                  env \in {e \in QuietEnvs : e.fetch = "clear"} }

\* What a cycle under way has done so far: the record of run() over the
\* file contents it read, cut at the statement it has reached.
Progress(c) ==
    LET r == RunOf(c.read, c.env).cycle
        fetched == [NoCycle EXCEPT !.outcome = c.pc, !.fetch = r.fetch,
                                   !.fetched = TRUE, !.current = r.current]
    IN  CASE c.pc = "fetched"    -> fetched
          [] c.pc = "loaded"     -> [fetched EXCEPT !.previous = r.previous]
          [] c.pc = "composed"   -> [r EXCEPT !.outcome = c.pc,
                                              !.desktop = "not_called",
                                              !.email = "not_called",
                                              !.save = "not_called"]
          [] c.pc = "desktop_shown" -> [r EXCEPT !.outcome = c.pc,
                                                 !.email = "not_called",
                                                 !.save = "not_called"]
          [] c.pc = "dispatched" -> [r EXCEPT !.outcome = c.pc,
                                              !.save = "not_called"]
          [] c.pc = "opened"     -> [r EXCEPT !.outcome = c.pc,
                                              !.save = "opened"]

\* run() up to the return of fetch_disruptions / check_for_disruptions.  A
\* cycle that cannot log or fetches nothing is over.
Fetch(p, env) ==
    /\ cycles[p].pc = "idle"
    /\ LET r == RunOf(state_file, env).cycle
           c == [pc |-> "fetched", env |-> env, read |-> Missing]
       IN  IF r.fetched
           THEN /\ cycles' = [cycles EXCEPT ![p] = c]
                /\ last' = Progress(c)
           ELSE /\ last' = r
                /\ UNCHANGED cycles
    /\ UNCHANGED <<variant, state_file, rendered>>

\* load_previous_state: the contents of STATE_FILE are read.
LoadState(p) ==
    /\ cycles[p].pc = "fetched"
    /\ LET c == [cycles[p] EXCEPT !.pc = "loaded", !.read = state_file]
       IN  /\ cycles' = [cycles EXCEPT ![p] = c]
           /\ last' = Progress(c)
    /\ UNCHANGED <<variant, state_file, rendered>>

\* The branch of run() up to the first channel call: the cycle is
\* classified and its message, if any, is composed and logged.  A cycle
\* that calls no channel has left the branch.
Classify(p) ==
    /\ cycles[p].pc = "loaded"
    /\ LET r == RunOf(cycles[p].read, cycles[p].env).cycle
           calls == \/ r.desktop # "not_called"
                    \/ r.email # "not_called"
           c == [cycles[p] EXCEPT
                   !.pc = IF calls THEN "composed" ELSE "dispatched"]
       IN  /\ cycles' = [cycles EXCEPT ![p] = c]
           /\ last' = Progress(c)
    /\ UNCHANGED <<variant, state_file, rendered>>

\* send_desktop_notification of the GTFS variant has returned; the types
\* that are not mailed have left send_notification.
SendDesktop(p) ==
    /\ cycles[p].pc = "composed"
    /\ LET r == RunOf(cycles[p].read, cycles[p].env).cycle
           c == [cycles[p] EXCEPT
                   !.pc = IF r.email # "not_called" THEN "desktop_shown"
                          ELSE "dispatched"]
       IN  /\ r.desktop # "not_called"
           /\ cycles' = [cycles EXCEPT ![p] = c]
           /\ last' = Progress(c)
    /\ UNCHANGED <<variant, state_file, rendered>>

\* send_email_notification has returned, or has raised, which ends the
\* cycle.
SendEmail(p) ==
    /\ cycles[p].pc \in {"composed", "desktop_shown"}
    /\ LET r == RunOf(cycles[p].read, cycles[p].env).cycle
           c == [cycles[p] EXCEPT !.pc = "dispatched"]
       IN  /\ cycles[p].pc = "composed" => r.desktop = "not_called"
           /\ IF r.outcome = "raised"
              THEN /\ cycles' = [cycles EXCEPT ![p] = Idle]
                   /\ last' = r
              ELSE /\ cycles' = [cycles EXCEPT ![p] = c]
                   /\ last' = Progress(c)
    /\ UNCHANGED <<variant, state_file, rendered>>

\* Faulty OpenStateFile: save_state is called before the branch of run()
\* that notifies.
OpenStateFile_before_dispatch(p) ==
    /\ cycles[p].pc = "loaded"
    /\ cycles' = [cycles EXCEPT ![p].pc = "opened"]
    /\ last' = Progress([cycles[p] EXCEPT !.pc = "opened"])
    /\ state_file' = Corrupt
    /\ UNCHANGED <<variant, rendered>>

\* save_state, open(STATE_FILE, "w"): the file is truncated, or the open
\* raises, which save_state logs before run() returns.
OpenStateFile(p) ==
    /\ cycles[p].pc = "dispatched"
    /\ LET c == [cycles[p] EXCEPT !.pc = "opened"]
       IN  IF cycles[p].env.write = "open_failed"
           THEN /\ cycles' = [cycles EXCEPT ![p] = Idle]
                /\ last' = RunOf(cycles[p].read, cycles[p].env).cycle
                /\ UNCHANGED state_file
           ELSE /\ cycles' = [cycles EXCEPT ![p] = c]
                /\ last' = Progress(c)
                /\ state_file' = Corrupt
    /\ UNCHANGED <<variant, rendered>>

\* save_state, json.dump and the close of the file: the state is in the
\* file, or the dump raises, which save_state logs; run() returns.
DumpState(p) ==
    /\ cycles[p].pc = "opened"
    /\ LET r == RunOf(cycles[p].read, cycles[p].env)
       IN  /\ last' = r.cycle
           /\ state_file' = IF cycles[p].env.write = "ok"
                            THEN r.file ELSE Corrupt
    /\ cycles' = [cycles EXCEPT ![p] = Idle]
    /\ UNCHANGED <<variant, rendered>>

\* The process is killed between two statements.
Kill(p) ==
    /\ cycles[p].pc # "idle"
    /\ last' = [Progress(cycles[p]) EXCEPT !.outcome = "killed"]
    /\ cycles' = [cycles EXCEPT ![p] = Idle]
    /\ UNCHANGED <<variant, state_file, rendered>>

\* One invocation at a time, killed at any statement.
StepFetch == \E env \in StepEnvs : Fetch("p1", env)
StepLoad == LoadState("p1")
StepClassify == Classify("p1")
StepDesktop == SendDesktop("p1")
StepEmail == SendEmail("p1")
StepOpen == OpenStateFile("p1")
StepDump == DumpState("p1")
StepKill == Kill("p1")

NextSteps ==
    StepFetch \/ StepLoad \/ StepClassify \/ StepDesktop \/ StepEmail
    \/ StepOpen \/ StepDump \/ StepKill

SpecSteps == Init /\ [][NextSteps]_vars

\* Two invocations that overlap, nothing failing.
OverlapFetch == \E p \in Procs : \E env \in QuietEnvs : Fetch(p, env)
OverlapLoad == \E p \in Procs : LoadState(p)
OverlapClassify == \E p \in Procs : Classify(p)
OverlapDesktop == \E p \in Procs : SendDesktop(p)
OverlapEmail == \E p \in Procs : SendEmail(p)
OverlapOpen == \E p \in Procs : OpenStateFile(p)
OverlapDump == \E p \in Procs : DumpState(p)

NextOverlap ==
    OverlapFetch \/ OverlapLoad \/ OverlapClassify \/ OverlapDesktop
    \/ OverlapEmail \/ OverlapOpen
    \/ OverlapDump

SpecOverlap == Init /\ [][NextOverlap]_vars

\* ------------------------------------- the lines of one disruption's entry

\* Longest details text rendered.
MaxTextLen == 302

\* len(desc) > 300 and len(details) > 200
gtfs_description_limit == 300

simple_details_limit == 200

\* A text is the sequence of its characters.  The texts rendered are told
\* apart by their length, the character at place i being i; the full stop
\* is character 0.
Text(n) == [i \in 1..n |-> i]

Texts == {Text(n) : n \in 0..MaxTextLen}

Ellipsis == <<0, 0, 0>>

\* Faulty truncate: a text of exactly limit characters is cut as well.
truncate_from_limit(text, limit) ==
    IF Len(text) >= limit THEN SubSeq(text, 1, limit) \o Ellipsis ELSE text

\* if len(desc) > limit: desc = desc[:limit] + "..."
truncate(text, limit) ==
    IF Len(text) > limit THEN SubSeq(text, 1, limit) \o Ellipsis ELSE text

\* The bounds of an active period as filter_line_29 stores them: an
\* isoformat time, or "" for a bound the alert does not have.
PeriodBounds == {"", "2026-01-01T08:00:00"}

ActivePeriods == [start : PeriodBounds, end : PeriodBounds]

\* format_disruption_message: the lines of one entry after its header, the
\* description and then the bounds of each active period.
gtfs_description_lines(d) ==
    IF d.description # <<>>
    THEN << [label |-> "description",
             text  |-> truncate(d.description, gtfs_description_limit)] >>
    ELSE <<>>

gtfs_period_lines(period) ==
    (IF period.start # "" THEN << [label |-> "Fran", text |-> period.start] >>
     ELSE <<>>)
    \o
    (IF period["end"] # "" THEN << [label |-> "Till", text |-> period["end"]] >>
     ELSE <<>>)

RECURSIVE gtfs_periods_lines(_)
gtfs_periods_lines(periods) ==
    IF periods = <<>> THEN <<>>
    ELSE gtfs_period_lines(Head(periods)) \o gtfs_periods_lines(Tail(periods))

gtfs_entry_lines(d) ==
    gtfs_description_lines(d) \o gtfs_periods_lines(d.active_periods)

\* send_notification of the simple variant: the lines of one entry after
\* its header, the details.
simple_entry_lines(d) ==
    IF Get(d, "details", <<>>) # <<>>
    THEN << [label |-> "details",
             text  |-> truncate(d.details, simple_details_limit)] >>
    ELSE <<>>

\* The disruptions rendered: of the GTFS variant with a description and at
\* most one active period, of the simple variant with details.
RenderedDisruptions ==
    IF variant = "gtfs"
    THEN [ description : Texts, active_periods : BoundedSeq(ActivePeriods, 1) ]
    ELSE [ details : Texts ]

InitCompose ==
    /\ variant \in {"gtfs", "simple"}
    /\ state_file = Missing
    /\ last = NoCycle
    /\ cycles = [p \in Procs |-> Idle]
    /\ rendered = NotRendered

\* The entry of one disruption is rendered.
Render ==
    /\ \E d \in RenderedDisruptions :
         rendered' = [ done       |-> TRUE,
                       disruption |-> d,
                       lines      |-> IF variant = "gtfs"
                                      THEN gtfs_entry_lines(d)
                                      ELSE simple_entry_lines(d) ]
    /\ UNCHANGED <<variant, state_file, last, cycles>>

SpecCompose == InitCompose /\ [][Render]_vars

\* =============================================================== claims

\* The ids of a list of GTFS disruptions.
IdsOf(disruptions) == {disruptions[i].alert_id : i \in DOMAIN disruptions}

\* The cycle went past its fetch in the named variant.
Reconciled(v) == variant = v /\ last.fetched

\* The cycle composed exactly one notification, of this type, about these
\* disruptions.
Notified(notification_type, disruptions) ==
    /\ Len(last.notifications) = 1
    /\ last.notifications[1].type = notification_type
    /\ last.notifications[1].disruptions = disruptions

\* C1: in a GTFS cycle with a non-empty current list in which some current
\* id is not among the persisted alert_ids, the cycle is classified New and
\* its notification carries exactly the current disruptions whose id is not
\* persisted, whether or not other ids disappeared.
C1_NewCarriesTheNewRecords ==
    ( /\ Reconciled("gtfs")
      /\ last.current # <<>>
      /\ IdsOf(last.current) \ last.previous.known # {} )
    => /\ last.classification = "new"
       /\ Notified("new",
             SelectSeq(last.current,
                       LAMBDA d : d.alert_id \notin last.previous.known))

\* Previous {A}, current <<A, B>>: New with exactly B.
C1_Witness ==
    /\ Reconciled("gtfs")
    /\ last.previous.known = {"A"}
    /\ last.current = << [alert_id |-> "A", header |-> "hA"],
                         [alert_id |-> "B", header |-> "hB"] >>
    /\ last.classification = "new"
    /\ Notified("new", << [alert_id |-> "B", header |-> "hB"] >>)

\* C2: in a GTFS cycle with a non-empty current list, no new id and some
\* persisted id missing from the current ids, the cycle is classified
\* Updated and its notification carries the whole current list.
C2_UpdatedCarriesTheCurrentList ==
    ( /\ Reconciled("gtfs")
      /\ last.current # <<>>
      /\ IdsOf(last.current) \ last.previous.known = {}
      /\ last.previous.known \ IdsOf(last.current) # {} )
    => /\ last.classification = "updated"
       /\ Notified("updated", last.current)

\* Previous {A, B}, current <<A>>: Updated with <<A>>.
C2_Witness ==
    /\ Reconciled("gtfs")
    /\ last.previous.known = {"A", "B"}
    /\ last.current = << [alert_id |-> "A", header |-> "hA"] >>
    /\ last.classification = "updated"
    /\ Notified("updated", last.current)

\* What a state file holds, in the variant's terms, and what STATE_FILE
\* holds now.
PersistedIn(file) ==
    CASE variant = "gtfs"   -> GtfsPersisted(file)
      [] variant = "simple" -> SimplePersisted(file)
      [] variant = "ultra"  -> UltraPersisted(file)

Persisted == PersistedIn(state_file)

\* No disruption known to a persisted state / none in the current snapshot.
NothingKnown(p) ==
    CASE variant = "gtfs"   -> p.known = {}
      [] variant = "simple" -> p.known = 0
      [] variant = "ultra"  -> p.known = FALSE

NothingNow ==
    IF variant = "ultra" THEN last.current = FALSE ELSE last.current = <<>>

\* C3 as stated: in a GTFS cycle with an empty current list and a non-empty
\* persisted id set, the cycle is classified Resolved, the notification is
\* sent with an empty list, and the persisted known-id set is empty after
\* the cycle.
C3_ResolvedEmptiesTheState ==
    ( /\ Reconciled("gtfs")
      /\ last.current = <<>>
      /\ last.previous.known # {} )
    => /\ last.classification = "resolved"
       /\ Notified("resolved", <<>>)
       /\ last.desktop # "not_called"
       /\ Persisted.known = {}

\* C3 amended: the same, the persisted known-id set being empty after the
\* cycle unless the open of STATE_FILE failed in save_state, in which case
\* the file still holds the previous ids.
C3_ResolvedEmptiesTheStateIfWritable ==
    ( /\ Reconciled("gtfs")
      /\ last.current = <<>>
      /\ last.previous.known # {} )
    => /\ last.classification = "resolved"
       /\ Notified("resolved", <<>>)
       /\ last.desktop # "not_called"
       /\ last.save # "not_called"
       /\ IF last.save = "open_failed"
          THEN Persisted.known = last.previous.known
          ELSE Persisted.known = {}

\* Previous {A}, current <<>>, the state written: Resolved, nothing known.
C3_Witness ==
    /\ Reconciled("gtfs")
    /\ last.previous.known = {"A"}
    /\ last.current = <<>>
    /\ last.classification = "resolved"
    /\ last.save = "written"
    /\ state_file.kind = "json"
    /\ state_file.value.disruptions = <<>>
    /\ state_file.value.alert_ids = <<>>

\* C4: in every variant, a cycle in which neither the persisted state nor
\* the current snapshot holds a disruption is classified None, composes no
\* notification, calls no channel, and leaves a persisted state in which
\* nothing is known.
C4_NothingBeforeNothingNow ==
    ( /\ last.fetched
      /\ NothingKnown(last.previous)
      /\ NothingNow )
    => /\ last.classification = "none"
       /\ last.notifications = <<>>
       /\ last.desktop = "not_called"
       /\ last.email = "not_called"
       /\ last.save # "not_called"
       /\ NothingKnown(Persisted)

\* A state written with no disruption, then an empty snapshot.
C4_Witness ==
    /\ Reconciled("ultra")
    /\ last.previous = [kind |-> "json", known |-> FALSE]
    /\ last.current = FALSE
    /\ last.classification = "none"
    /\ last.save = "written"

\* A state without the time it was written at.
Content(state) == [k \in DOMAIN state \ {"timestamp"} |-> state[k]]

\* The state save_state writes for the current snapshot of the last cycle,
\* its timestamp aside.
StateOfCurrent ==
    CASE variant = "gtfs" ->
           [ disruptions |-> last.current,
             alert_ids   |-> [i \in DOMAIN last.current |-> last.current[i].alert_id] ]
      [] variant = "simple" ->
           [ disruptions |-> last.current, count |-> Len(last.current) ]
      [] variant = "ultra" ->
           [ had_disruption |-> last.current ]

\* C5: after every cycle whose fetch succeeded and whose state write
\* succeeded, STATE_FILE holds the current snapshot (its disruptions and
\* their ids, their count, or the flag), whatever the classification.
C5_StateIsTheCurrentSnapshot ==
    (last.fetched /\ last.save = "written")
    => /\ state_file.kind = "json"
       /\ Content(state_file.value) = StateOfCurrent
       /\ variant = "gtfs" => Persisted.known = IdsOf(last.current)

\* A New cycle that also lost an id: previous {A}, current <<B>>, written.
C5_Witness ==
    /\ Reconciled("gtfs")
    /\ last.previous.known = {"A"}
    /\ last.classification = "new"
    /\ last.save = "written"
    /\ Persisted.known = {"B"}

\* C7: when STATE_FILE is missing or unparseable, loading it is not fatal
\* and yields an empty previous state: a cycle past its fetch with a
\* disruption now is classified New about the whole current list.
C7_UnreadableStateMeansAllNew ==
    ( /\ last.fetched
      /\ last.previous.kind \in {"missing", "corrupt"}
      /\ ~NothingNow )
    => /\ last.classification = "new"
       /\ Len(last.notifications) = 1
       /\ last.notifications[1].type = "new"
       /\ variant \in {"gtfs", "simple"}
             => last.notifications[1].disruptions = last.current

\* An unparseable file, current <<A, B>>: New with both.
C7_Witness ==
    /\ Reconciled("gtfs")
    /\ last.previous.kind = "corrupt"
    /\ IdsOf(last.current) = {"A", "B"}
    /\ last.classification = "new"
    /\ Notified("new", last.current)

\* The answers on which a fetch counts as failed: a network error or a
\* timeout, a status that is not a success (of the HTTP response or of the
\* API payload), a body that does not parse.
FailureAnswers ==
    { "timeout", "request_error", "parse_error",
      "exception", "non200", "bad_json", "api_error",
      "bad_status", "unexpected" }

FetchFailed(cycle) ==
    cycle.outcome # "none_yet" /\ cycle.fetch.answer \in FailureAnswers

\* C6: in each variant, a cycle whose fetch fails ends before
\* reconciliation: what STATE_FILE holds is left as it was and no
\* notification is composed or dispatched on any channel.  Stated of the
\* cycles that return normally.
C6_FailedFetchEndsTheCycle ==
    [][ (FetchFailed(last') /\ last'.outcome = "returned")
        => /\ PersistedIn(state_file').known = PersistedIn(state_file).known
           /\ last'.notifications = <<>>
           /\ last'.desktop = "not_called"
           /\ last'.email = "not_called" ]_vars

WriteFailed(cycle) == cycle.save \in {"open_failed", "partial"}

\* C8: when the state write of a cycle fails, the cycle has composed its
\* notification and returns normally, what STATE_FILE holds keeps its
\* previous value, and the next cycle with the same current snapshot is classified the
\* same and notifies again.
C8_FailedWriteKeepsTheState ==
    [][ /\ WriteFailed(last')
           => /\ last'.outcome = "returned"
              /\ last'.classification \in {"new", "updated", "resolved"}
                    => Len(last'.notifications) = 1
              /\ PersistedIn(state_file').known = PersistedIn(state_file).known
        /\ (WriteFailed(last) /\ last'.fetched /\ last'.current = last.current)
           => /\ last'.classification = last.classification
              /\ last'.notifications = last.notifications ]_vars

\* C9: in the GTFS variant, every cycle classified New or Updated calls the
\* desktop channel and the email channel and runs save_state, whatever the
\* outcome on either channel.
C9_ChannelsDoNotBlock ==
    ( /\ Reconciled("gtfs")
      /\ last.classification \in {"new", "updated"} )
    => /\ last.desktop # "not_called"
       /\ last.email # "not_called"
       /\ last.save # "not_called"

\* C10: every cycle classified New or Updated hands its notification to
\* all channels of the variant: desktop and email in the GTFS variant,
\* email in the simple variant.
C10_NewAndUpdatedReachAllChannels ==
    ( /\ last.fetched
      /\ last.classification \in {"new", "updated"} )
    => /\ variant = "gtfs"
             => last.desktop # "not_called" /\ last.email # "not_called"
       /\ variant = "simple" => last.email # "not_called"

\* C11: in every variant, a cycle classified Ongoing or None composes no
\* notification and calls no notification channel, neither desktop nor
\* email.
C11_OngoingAndNoneAreSilent ==
    ( /\ last.fetched
      /\ last.classification \in {"ongoing", "none"} )
    => /\ last.notifications = <<>>
       /\ last.desktop = "not_called"
       /\ last.email = "not_called"

\* Previous {A}, current <<A>>: Ongoing, nothing sent, the state saved.
C11_Witness ==
    /\ Reconciled("gtfs")
    /\ last.previous.known = {"A"}
    /\ IdsOf(last.current) = {"A"}
    /\ last.classification = "ongoing"
    /\ last.notifications = <<>>
    /\ last.save = "written"

\* The cycles in which nothing fails, one per current snapshot, at the
\* first reading of the clock.
UneventfulEnvs ==
    CASE variant = "gtfs" ->
           [ log_ok : {TRUE}, fetch : {"ok"}, alerts : GtfsFeeds,
             desktop : {"ok"}, mail : {MailWorks}, write : {"ok"},
             now : {"t1"} ]
      [] variant = "simple" ->
           [ log_ok : {TRUE}, net : SimpleFetchingNets, mail : {MailWorks},
             write : {"ok"}, now : {"t1"} ]
      [] variant = "ultra" ->
           [ fetch : {"disruption", "clear"}, mail : {MailWorks},
             write : {"ok"}, now : {"t1"} ]

\* C12 as stated: reconciling and persisting the same current snapshot over
\* the same persisted state twice, at whatever times, gives the same
\* classification and the same state file both times.
C12_ReconcileTwiceSameState ==
    \A env \in UneventfulEnvs : \A t \in Clock :
        LET first  == RunOf(state_file, env)
            second == RunOf(state_file, [env EXCEPT !.now = t])
        IN  /\ first.cycle.classification = second.cycle.classification
            /\ first.file = second.file

\* A state without the readings of the clock in it: the time it was
\* written at and, in the simple variant, the time at which the record of a
\* scraped page was built.
Undated(state) ==
    LET content == Content(state)
        undated(d) == [k \in DOMAIN d \ {"timestamp"} |-> d[k]]
    IN  IF variant = "simple"
        THEN [content EXCEPT !.disruptions =
                 [i \in DOMAIN content.disruptions |->
                     undated(content.disruptions[i])]]
        ELSE content

\* C12 amended: the classification is the same both times, and so is the
\* state written apart from the readings of the clock it records: its
\* timestamp, the time of the write, and the timestamp of the record the
\* simple variant builds from a scraped page.
C12_ReconcileTwiceSameContent ==
    \A env \in UneventfulEnvs : \A t \in Clock :
        LET first  == RunOf(state_file, env)
            second == RunOf(state_file, [env EXCEPT !.now = t])
        IN  /\ first.cycle.classification = second.cycle.classification
            /\ first.file.kind = "json" /\ second.file.kind = "json"
            /\ Undated(first.file.value) = Undated(second.file.value)

\* A state file that knows A, over which the feed <<A, B>> is reconciled at
\* two times: New both times, the same ids written, the timestamps apart.
C12_Witness ==
    /\ variant = "gtfs"
    /\ Persisted.known = {"A"}
    /\ \E env \in UneventfulEnvs :
          LET first  == RunOf(state_file, env)
              second == RunOf(state_file, [env EXCEPT !.now = "t2"])
          IN  /\ first.cycle.classification = "new"
              /\ second.cycle.classification = "new"
              /\ first.file.value.alert_ids = <<"A", "B">>
              /\ second.file.value.alert_ids = <<"A", "B">>
              /\ first.file.value.timestamp # second.file.value.timestamp

\* The step is a write of STATE_FILE by process p: the open that truncates
\* it or the dump that fills it.
Writes(p) ==
    /\ cycles[p].pc \in {"dispatched", "opened"}
    /\ cycles'[p] # cycles[p]

\* Process q has read STATE_FILE and not yet finished writing it.
BetweenReadAndWrite(q) ==
    cycles[q].pc \in {"loaded", "composed", "desktop_shown", "dispatched", "opened"}

\* C13: when two cycles overlap, no cycle writes STATE_FILE while the other
\* is between its read and its write of it, and a cycle that starts to
\* write finds in the file what it read from it (no lost update).
C13_WritesAreSerialized ==
    [][ \A p \in Procs :
          /\ Writes(p) => \A q \in Procs \ {p} : ~BetweenReadAndWrite(q)
          /\ (cycles[p].pc = "dispatched" /\ cycles'[p].pc = "opened")
                => state_file = cycles[p].read ]_vars

\* The step kills process p inside save_state, after the open of STATE_FILE.
KilledInSave(p) ==
    /\ cycles[p].pc = "opened"
    /\ cycles'[p].pc = "idle"
    /\ last'.outcome = "killed"

\* The file save_state of process p leaves when its write is complete.
NewStateFile(p) ==
    RunOf(cycles[p].read, [cycles[p].env EXCEPT !.write = "ok"]).file

\* C14: when the process is killed inside save_state, what STATE_FILE
\* holds afterwards is what it held before the cycle or what the cycle was
\* writing, never less.
C14_KilledSaveLeavesAState ==
    [][ \A p \in Procs :
          KilledInSave(p)
          => PersistedIn(state_file').known
                \in { PersistedIn(cycles[p].read).known,
                      PersistedIn(NewStateFile(p)).known } ]_vars

\* C15: whatever the outcomes of the fetch, the state read, the state
\* write, the log write and the channels, run() returns normally: no
\* exception leaves it.
C15_RunAlwaysReturns == last.outcome \in {"none_yet", "returned"}

\* The text of a Resolved notification of the GTFS and the simple variant,
\* and the subject of the mail of the ultra variant.
ResolvedTitle ==
    IF variant = "ultra" THEN "Storning lost - Linje 29"
    ELSE "Storning lost pa linje 29"

ResolvedBody ==
    IF variant = "ultra"
    THEN [kind |-> "resolved", entries |-> <<>>, at |-> "t1"]
    ELSE [kind |-> "all_resolved", entries |-> <<>>]

\* C16 as stated: in every variant, every cycle classified Resolved
\* composes one notification whose title and body are the same text,
\* whatever the persisted state held.
C16_ResolvedTextIsConstant ==
    (last.fetched /\ last.classification = "resolved")
    => /\ Notified("resolved", <<>>)
       /\ last.notifications[1].title = ResolvedTitle
       /\ last.notifications[1].body = ResolvedBody

\* C16 amended: the title is the same text in every Resolved cycle, and so
\* is the body, apart from the time on the last line of the ultra
\* variant's body.
C16_ResolvedTextIsConstantButForTheTime ==
    (last.fetched /\ last.classification = "resolved")
    => /\ Notified("resolved", <<>>)
       /\ last.notifications[1].title = ResolvedTitle
       /\ IF variant = "ultra"
          THEN /\ last.notifications[1].body.at \in Clock
               /\ [last.notifications[1].body EXCEPT !.at = "t1"] = ResolvedBody
          ELSE last.notifications[1].body = ResolvedBody

\* A Resolved cycle of the ultra variant at the second reading of the
\* clock.
C16_Witness ==
    /\ Reconciled("ultra")
    /\ last.previous = [kind |-> "json", known |-> TRUE]
    /\ last.classification = "resolved"
    /\ last.notifications[1].title = "Storning lost - Linje 29"
    /\ last.notifications[1].body.at = "t2"

\* The records a GTFS cycle classified New or Updated is about, in the
\* order of the current list.
RelevantOfCurrent ==
    IF last.classification = "new"
    THEN SelectSeq(last.current, LAMBDA d : d.alert_id \notin last.previous.known)
    ELSE last.current

\* C17: the body of a GTFS notification lists the relevant records in the
\* relative order they have in the current list, numbered 1..n: for New
\* the new records, for Updated the whole list, never re-sorted.
C17_BodyKeepsTheOrder ==
    ( /\ Reconciled("gtfs")
      /\ last.classification \in {"new", "updated"} )
    => /\ Len(last.notifications) = 1
       /\ last.notifications[1].body.kind = "listing"
       /\ last.notifications[1].body.entries =
             [i \in 1..Len(RelevantOfCurrent) |->
                 [idx |-> i, header |-> RelevantOfCurrent[i].header]]

\* Nothing known, current <<B, A>>: B is entry 1 and A is entry 2.
C17_Witness ==
    /\ Reconciled("gtfs")
    /\ last.previous.known = {}
    /\ last.current = << [alert_id |-> "B", header |-> "hB"],
                         [alert_id |-> "A", header |-> "hA"] >>
    /\ last.classification = "new"
    /\ last.notifications[1].body.entries =
          << [idx |-> 1, header |-> "hB"], [idx |-> 2, header |-> "hA"] >>

\* The lines of the rendered entry with this label.
LinesLabelled(label) == SelectSeq(rendered.lines, LAMBDA l : l.label = label)

\* The details text of the rendered disruption and the line it is due.
DetailsRendered ==
    IF variant = "gtfs" THEN rendered.disruption.description
    ELSE rendered.disruption.details

DetailsLines ==
    LinesLabelled(IF variant = "gtfs" THEN "description" ELSE "details")

\* C18: in the entry of a disruption, a details text longer than the limit
\* of the variant (300 characters GTFS, 200 simple) is one line holding its
\* first limit characters followed by "...", a details text of at most
\* limit characters is one line holding it unchanged, an empty details
\* text gives no line, and each active period gives a start line and an
\* end line exactly for the bounds it has.
C18_DetailsAreCutAtTheLimit ==
    rendered.done =>
      LET text  == DetailsRendered
          limit == IF variant = "gtfs" THEN 300 ELSE 200
      IN  /\ Len(text) > limit
                => /\ Len(DetailsLines) = 1
                   /\ Len(DetailsLines[1].text) = limit + 3
                   /\ SubSeq(DetailsLines[1].text, 1, limit) = SubSeq(text, 1, limit)
                   /\ SubSeq(DetailsLines[1].text, limit + 1, limit + 3) = <<0, 0, 0>>
          /\ (Len(text) > 0 /\ Len(text) <= limit)
                => /\ Len(DetailsLines) = 1
                   /\ DetailsLines[1].text = text
          /\ Len(text) = 0 => DetailsLines = <<>>
          /\ variant = "gtfs" =>
                LET periods == rendered.disruption.active_periods
                IN  /\ Len(LinesLabelled("Fran")) =
                          Cardinality({i \in DOMAIN periods : periods[i].start # ""})
                    /\ Len(LinesLabelled("Till")) =
                          Cardinality({i \in DOMAIN periods : periods[i]["end"] # ""})

\* A GTFS description of 301 characters and a period without an end: the
\* line holds 300 characters and the ellipsis, and only the start is shown.
C18_Witness ==
    /\ rendered.done
    /\ variant = "gtfs"
    /\ Len(rendered.disruption.description) = 301
    /\ rendered.disruption.active_periods =
          << [start |-> "2026-01-01T08:00:00", end |-> ""] >>
    /\ Len(rendered.lines) = 2
    /\ rendered.lines[1].text = Text(300) \o <<0, 0, 0>>
    /\ rendered.lines[2] = [label |-> "Fran", text |-> "2026-01-01T08:00:00"]

\* The ids a GTFS cycle knew from STATE_FILE and did not find in its feed.
LostIn(cycle) == cycle.previous.known \ IdsOf(cycle.current)

\* The cycle is a GTFS cycle past its fetch in which some id is new and
\* some known id is gone.
GainsAndLoses(cycle) ==
    /\ variant = "gtfs"
    /\ cycle.fetched
    /\ IdsOf(cycle.current) \ cycle.previous.known # {}
    /\ LostIn(cycle) # {}

\* C19: a GTFS cycle with new ids and with known ids gone is classified New
\* and composes one notification, about the new records only, none about
\* the ids that are gone.  Once its state is written those ids are known
\* no more: the next cycle past its fetch knows none of them and reports
\* none of them gone, and an id only ever becomes known by being current.
C19_NewHidesTheLoss ==
    [][ /\ GainsAndLoses(last')
           => /\ last'.classification = "new"
              /\ Len(last'.notifications) = 1
              /\ last'.notifications[1].type = "new"
              /\ IdsOf(last'.notifications[1].disruptions)
                    = IdsOf(last'.current) \ last'.previous.known
        /\ (GainsAndLoses(last) /\ last.save = "written" /\ last'.fetched)
           => /\ last'.previous.known \cap LostIn(last) = {}
              /\ last'.classification \in {"updated", "resolved"}
                    => LostIn(last') \cap LostIn(last) = {}
        /\ variant = "gtfs"
           => GtfsPersisted(state_file').known
                 \subseteq GtfsPersisted(state_file).known
                           \cup IdsOf(last'.current) ]_vars

\* Previous {A}, current <<B>>: New about B alone, and B alone is now known.
C19_Witness ==
    /\ Reconciled("gtfs")
    /\ last.previous.known = {"A"}
    /\ last.current = << [alert_id |-> "B", header |-> "hB"] >>
    /\ last.classification = "new"
    /\ Notified("new", last.current)
    /\ last.save = "written"
    /\ Persisted.known = {"B"}

\* The step kills process p after its notification calls have returned and
\* before save_state.
KilledBeforeSave(p) ==
    /\ cycles[p].pc = "dispatched"
    /\ cycles'[p].pc = "idle"
    /\ last'.outcome = "killed"

\* What names a notification: its type, its title, the records it lists.
Named(notifications) ==
    [i \in DOMAIN notifications |->
        [ type        |-> notifications[i].type,
          title       |-> notifications[i].title,
          disruptions |-> notifications[i].disruptions ]]

\* C20: STATE_FILE changes only in save_state, which a cycle reaches after
\* its notification calls have returned.  A cycle killed between the two
\* leaves in STATE_FILE what it read from it, and a cycle run next on the
\* same snapshot, at whatever time, is classified the same and composes
\* the same notification again.
C20_StateIsWrittenAfterDispatch ==
    [][ /\ state_file' # state_file
           => \E p \in Procs :
                /\ cycles[p].pc \in {"dispatched", "opened"}
                /\ cycles'[p] # cycles[p]
        /\ \A p \in Procs :
              KilledBeforeSave(p)
              => /\ state_file' = cycles[p].read
                 /\ \A t \in Clock :
                      LET again == RunOf(state_file',
                                         [cycles[p].env EXCEPT !.now = t]).cycle
                      IN  /\ again.classification = last.classification
                          /\ Named(again.notifications)
                                = Named(last.notifications) ]_vars

\* A GTFS cycle that read {A}, fetched <<B>>, sent New about B and was
\* killed before save_state: STATE_FILE still knows A alone.
C20_Witness ==
    /\ variant = "gtfs"
    /\ last.outcome = "killed"
    /\ last.previous.known = {"A"}
    /\ last.classification = "new"
    /\ Notified("new", << [alert_id |-> "B", header |-> "hB"] >>)
    /\ last.desktop = "ok"
    /\ last.email = "sent"
    /\ last.save = "not_called"
    /\ cycles["p1"] = Idle
    /\ Persisted.known = {"A"}

\* C21: a cycle classified Resolved calls the desktop channel and not the
\* email channel in the GTFS variant, and calls the email channel in the
\* simple and the ultra variant.
C21_ResolvedChannelByVariant ==
    (last.fetched /\ last.classification = "resolved")
    => /\ variant = "gtfs"
             => last.desktop # "not_called" /\ last.email = "not_called"
       /\ variant \in {"simple", "ultra"} => last.email # "not_called"

\* A Resolved cycle of the GTFS variant: desktop called, no mail.
C21_Witness ==
    /\ Reconciled("gtfs")
    /\ last.previous.known = {"A", "B"}
    /\ last.classification = "resolved"
    /\ last.desktop = "ok"
    /\ last.email = "not_called"

\* C22: a cycle of the simple variant is classified from the count in
\* STATE_FILE (0 when it cannot be read) and the number of current
\* disruptions alone: New iff current > 0 and previous = 0, Updated iff
\* both > 0 and different, Ongoing iff both > 0 and equal, Resolved iff
\* current = 0 and previous > 0, None iff both 0.  So a current list as
\* long as the stored one but with other disruptions is Ongoing and
\* nothing is composed or mailed.
C22_SimpleClassifiesByCount ==
    [][ (variant = "simple" /\ last'.fetched) =>
          LET previous == SimplePersisted(state_file).known
              current  == Len(last'.current)
              class    == last'.classification
          IN  /\ class = "new"      <=> (current > 0 /\ previous = 0)
              /\ class = "updated"  <=> (current > 0 /\ previous > 0
                                         /\ current # previous)
              /\ class = "ongoing"  <=> (current > 0 /\ previous > 0
                                         /\ current = previous)
              /\ class = "resolved" <=> (current = 0 /\ previous > 0)
              /\ class = "none"     <=> (current = 0 /\ previous = 0)
              /\ ( /\ state_file.kind = "json"
                   /\ current > 0
                   /\ current = previous
                   /\ state_file.value.disruptions # last'.current )
                 => /\ class = "ongoing"
                    /\ last'.notifications = <<>>
                    /\ last'.email = "not_called" ]_vars

\* STATE_FILE holds the one disruption h1 and the cycle found the one
\* disruption h2: Ongoing, nothing composed.  (The open of STATE_FILE
\* failed, so the file still shows what the cycle read.)
C22_Witness ==
    /\ Reconciled("simple")
    /\ last.previous = [kind |-> "json", known |-> 1]
    /\ last.current = << [header |-> "h2"] >>
    /\ last.classification = "ongoing"
    /\ last.notifications = <<>>
    /\ last.save = "open_failed"
    /\ state_file.kind = "json"
    /\ state_file.value.disruptions = << [header |-> "h1"] >>

\* C23: in the GTFS variant, when the state writes do not fail, an id
\* listed in a New notification was absent from the previous successfully
\* fetched snapshot: a cycle that follows a cycle which fetched, and whose
\* write did not fail, lists as new no id of that cycle's current list.
C23_NewIsNotifiedOnce ==
    [][ ( /\ variant = "gtfs"
          /\ last.fetched
          /\ ~WriteFailed(last)
          /\ last'.fetched
          /\ last'.classification = "new"
          /\ last'.notifications # <<>> )
        => IdsOf(last'.notifications[1].disruptions)
               \cap IdsOf(last.current) = {} ]_vars

\* The cycle composed a notification of this type.
NotifiesAs(cycle, notification_type) ==
    /\ cycle.fetched
    /\ cycle.notifications # <<>>
    /\ cycle.notifications[1].type = notification_type

\* C24: in every variant, when the state writes do not fail, two Resolved
\* notifications have a New notification between them, and the first
\* notification after a start without state file is not Resolved: a cycle
\* notifies Resolved only over a state in which a disruption is known, it
\* leaves a state in which none is known, and a state in which none is
\* known (as is no state file) gets one in which some is only by a cycle
\* that notifies New.
C24_ResolvedNeedsANewBefore ==
    [][ LET before == PersistedIn(state_file)
            after  == PersistedIn(state_file')
        IN  /\ NotifiesAs(last', "resolved") => ~NothingKnown(before)
            /\ (NotifiesAs(last', "resolved") /\ ~WriteFailed(last'))
               => NothingKnown(after)
            /\ (NothingKnown(before) /\ ~NothingKnown(after))
               => NotifiesAs(last', "new") ]_vars

\* C25: in the GTFS and the simple variant a notification of type new or
\* updated is composed from a non-empty list and has the listing body, and
\* a notification of type resolved is composed from the empty list and has
\* the fixed "all resolved" body: that body never goes under a New or
\* Updated title.
C25_BodyMatchesTheType ==
    variant \in {"gtfs", "simple"}
    => \A i \in DOMAIN last.notifications :
          LET n == last.notifications[i]
          IN  /\ n.type \in {"new", "updated", "resolved"}
              /\ n.type \in {"new", "updated"}
                    => /\ n.disruptions # <<>>
                       /\ n.body.kind = "listing"
                       /\ Len(n.body.entries) = Len(n.disruptions)
              /\ n.type = "resolved"
                    => /\ n.disruptions = <<>>
                       /\ n.body.kind = "all_resolved"
              /\ n.body.kind = "all_resolved"
                    => n.title = IF variant = "gtfs" THEN gtfs_title("resolved")
                                 ELSE simple_title("resolved")

\* An Updated notification of the simple variant listing both current
\* disruptions.
C25_Witness ==
    /\ Reconciled("simple")
    /\ Len(last.current) = 2
    /\ last.previous.known = 1
    /\ Notified("updated", last.current)
    /\ last.notifications[1].body.kind = "listing"

\* C26: a cycle of any variant composes at most one notification; a cycle
\* whose fetch failed composes none and does not call save_state; a cycle
\* that fetched makes one attempt to write the state.
C26_OneNotificationOneWrite ==
    last.outcome # "none_yet"
    => /\ Len(last.notifications) <= 1
       /\ ~last.fetched => /\ last.notifications = <<>>
                           /\ last.save = "not_called"
       /\ last.fetched => last.save \in {"written", "open_failed", "partial"}

====
